---- MODULE Spec2Model ----
(***************************************************************************)
(* Crazy Eights (qixinsame/CrazyEight): the game state held by the App     *)
(* component, its click handlers, the winner effect and the delayed AI     *)
(* effect, as a state machine.                                             *)
(*                                                                         *)
(* React semantics used by the model                                       *)
(*  - gs is the GameState of useState (App.tsx:16).  Every setGameState    *)
(*    updater is applied to the latest state ("prev"); a handler's guards  *)
(*    read the state of the latest render (the closure "gameState").       *)
(*    Updates made in a click handler are rendered before the next event   *)
(*    is dispatched, so a click handler's closure is the current state.    *)
(*  - A useEffect runs after the commit in which one of its dependencies   *)
(*    changed and reads the state of that commit.  The state update an     *)
(*    effect makes is rendered in a later task: pendingWinner holds the    *)
(*    winner effect's update between the two, and user events may be       *)
(*    handled in between.                                                  *)
(*  - The AI effect's cleanup clears its timer at every commit that        *)
(*    changes one of its dependencies; timer holds the state captured by   *)
(*    the pending setTimeout callback.  AI_DELAY (1000 ms) is long against  *)
(*    React's own rendering tasks, so the timer never fires while an       *)
(*    effect's update is still waiting to be rendered.                     *)
(*  - A handler can be invoked when the element carrying it is rendered    *)
(*    with it: the SuitSelector only while isSuitSelectorOpen, a card of   *)
(*    the hand only while the Hand is not disabled.  Stacking of overlays  *)
(*    (CSS) is not a guard of the model.                                   *)
(***************************************************************************)
EXTENDS Integers, Sequences, FiniteSets, TLC

VARIABLES
    gs,             \* GameState (App.tsx:16-26)
    timer,          \* state captured by the pending AI timeout, or NoTimer
    pendingWinner,  \* winner effect's update not yet rendered: "none", "player", "ai"
    fault,          \* TRUE once an updater has thrown (the App is unmounted)
    intents,        \* number of accepted player intents since the last StartGame
    lastOp          \* history: the operation that produced this state

vars == <<gs, timer, pendingWinner, fault, intents, lastOp>>

(***************************************************************************)
(* Bounds of the model.                                                    *)
(***************************************************************************)
\* Number of ranks in the deck, taken from RANKS starting at "8".
NumRanks == 2
\* Cards dealt to each hand (the program deals 8 of 52).
HandSize == 2
\* Player intents (plays, draws, suit choices, cancellations) accepted in
\* one game.
MaxIntents == 8
\* Number of random streams Math.random may follow in one shuffle.
NumSeeds == 2

(***************************************************************************)
(* Cards and the deck (types, utils/deck.ts).                              *)
(***************************************************************************)
SUITS == <<"hearts", "diamonds", "clubs", "spades">>

RANKS == <<"2", "3", "4", "5", "6", "7", "8", "9", "10", "J", "Q", "K", "A">>

\* The ranks the bounded deck is built from: NumRanks ranks starting at "8".
DeckRanks ==
    LET e == CHOOSE i \in 1..Len(RANKS) : RANKS[i] = "8"
    IN  SubSeq(RANKS, e, e + NumRanks - 1)

Seeds == 0..(NumSeeds - 1)

null == "null"

Last(s) == s[Len(s)]

\* createDeck: for each suit, for each rank, one card with an identity of
\* its own (crypto.randomUUID; here the card's position in the new deck).
createDeck ==
    [k \in 1..(Len(SUITS) * Len(DeckRanks)) |->
        [id   |-> k,
         suit |-> SUITS[((k - 1) \div Len(DeckRanks)) + 1],
         rank |-> DeckRanks[((k - 1) % Len(DeckRanks)) + 1]]]

AllCards == {createDeck[k] : k \in 1..Len(createDeck)}

\* Math.floor(Math.random() * (i + 1)) for the random stream of a seed: the
\* stream of seed s returns s / NumSeeds at every call.
RandomIndex(seed, i) == (seed * (i + 1)) \div NumSeeds

Swap(d, a, b) == [d EXCEPT ![a] = d[b], ![b] = d[a]]

\* The Fisher-Yates loop of shuffleDeck, i (0-based) running down to 1.
RECURSIVE ShuffleFrom(_, _, _)
ShuffleFrom(d, i, seed) ==
    IF i < 1 THEN d
    ELSE ShuffleFrom(Swap(d, i + 1, RandomIndex(seed, i) + 1), i - 1, seed)

shuffleDeck(deck, seed) == ShuffleFrom(deck, Len(deck) - 1, seed)

\* dealCards: slice(0, count) and slice(count).
dealCards(deck, count) ==
    [hand          |-> SubSeq(deck, 1, IF count < Len(deck) THEN count ELSE Len(deck)),
     remainingDeck |-> SubSeq(deck, count + 1, Len(deck))]

(***************************************************************************)
(* The game state.                                                         *)
(***************************************************************************)
InitialState ==
    [deck               |-> <<>>,
     discardPile        |-> <<>>,
     playerHand         |-> <<>>,
     aiHand             |-> <<>>,
     currentTurn        |-> "player",
     currentSuit        |-> null,
     status             |-> "start",
     winner             |-> null,
     isSuitSelectorOpen |-> FALSE]

NoTimer == [set |-> FALSE]

\* startNewGame leaving the first discard on the draw pile as well.
startNewGameKeepsSeed(seed) ==
    LET newDeck      == shuffleDeck(createDeck, seed)
        p            == dealCards(newDeck, HandSize)
        a            == dealCards(p.remainingDeck, HandSize)
        firstDiscard == a.remainingDeck[1]
    IN  [deck               |-> a.remainingDeck,
         discardPile        |-> <<firstDiscard>>,
         playerHand         |-> p.hand,
         aiHand             |-> a.hand,
         currentTurn        |-> "player",
         currentSuit        |-> firstDiscard.suit,
         status             |-> "playing",
         winner             |-> null,
         isSuitSelectorOpen |-> FALSE]

\* startNewGame: the state it sets, for the random stream of the shuffle.
startNewGame(seed) ==
    LET newDeck      == shuffleDeck(createDeck, seed)
        p            == dealCards(newDeck, HandSize)
        a            == dealCards(p.remainingDeck, HandSize)
        firstDiscard == a.remainingDeck[1]
        finalDeck    == Tail(a.remainingDeck)
    IN  [deck               |-> finalDeck,
         discardPile        |-> <<firstDiscard>>,
         playerHand         |-> p.hand,
         aiHand             |-> a.hand,
         currentTurn        |-> "player",
         currentSuit        |-> firstDiscard.suit,
         status             |-> "playing",
         winner             |-> null,
         isSuitSelectorOpen |-> FALSE]

Init ==
    /\ gs = InitialState
    /\ timer = NoTimer
    /\ pendingWinner = "none"
    /\ fault = FALSE
    /\ intents = 0
    /\ lastOp = [by |-> "system", op |-> "init"]

(***************************************************************************)
(* Helpers of the handlers.                                                *)
(***************************************************************************)
\* discardPile[discardPile.length - 1]; undefined when the pile is empty.
Undefined == [id |-> 0, suit |-> "undefined", rank |-> "undefined"]

TopCard(pile) == IF Len(pile) = 0 THEN Undefined ELSE Last(pile)

\* hand.find(c => c.id === card.id) is not undefined
InHand(hand, card) == \E i \in 1..Len(hand) : hand[i].id = card.id

\* hand.filter(c => c.id !== card.id)
WithoutCard(hand, card) == SelectSeq(hand, LAMBDA c : c.id # card.id)

\* slice(0, length - 1)
ButLast(s) == SubSeq(s, 1, Len(s) - 1)

OtherSide(player) == IF player = "player" THEN "ai" ELSE "player"

\* isValidMove matching the printed suit of the top card, not the active suit.
isValidMoveTopSuit(card, topCard, currentSuit) ==
    IF card.rank = "8" THEN TRUE
    ELSE IF card.suit = topCard.suit THEN TRUE
    ELSE IF card.rank = topCard.rank THEN TRUE
    ELSE FALSE

\* isValidMove (App.tsx:80-85)
isValidMove(card, topCard, currentSuit) ==
    IF card.rank = "8" THEN TRUE
    ELSE IF card.suit = currentSuit THEN TRUE
    ELSE IF card.rank = topCard.rank THEN TRUE
    ELSE FALSE

\* playableCardIds without its test of turn and status.
playableCardIdsAnyTurn(gameState) ==
    {gameState.playerHand[i].id : i \in
        {j \in 1..Len(gameState.playerHand) :
            isValidMove(gameState.playerHand[j], TopCard(gameState.discardPile),
                        gameState.currentSuit)}}

\* playableCardIds (App.tsx:90-100)
playableCardIds(gameState) ==
    IF gameState.currentTurn # "player" \/ gameState.status # "playing" THEN {}
    ELSE {gameState.playerHand[i].id : i \in
            {j \in 1..Len(gameState.playerHand) :
                isValidMove(gameState.playerHand[j], TopCard(gameState.discardPile),
                            gameState.currentSuit)}}

\* drawCard resetting the active suit to the printed suit of the top card.
drawCardResetsSuit(prev, player, seed) ==
    IF Len(prev.deck) = 0 /\ Len(prev.discardPile) <= 1
    THEN [prev EXCEPT !.currentTurn = OtherSide(player)]
    ELSE LET reshuffle   == Len(prev.deck) = 0
             deck        == IF reshuffle
                            THEN shuffleDeck(ButLast(prev.discardPile), seed)
                            ELSE prev.deck
             discardPile == IF reshuffle
                            THEN <<Last(prev.discardPile)>>
                            ELSE prev.discardPile
         IN  [prev EXCEPT
                !.deck        = Tail(deck),
                !.discardPile = discardPile,
                !.currentSuit = Last(prev.discardPile).suit,
                !.playerHand  = IF player = "player" THEN Append(prev.playerHand, deck[1])
                                ELSE prev.playerHand,
                !.aiHand      = IF player = "ai" THEN Append(prev.aiHand, deck[1])
                                ELSE prev.aiHand]

\* drawCard keeping the bottom card of the discard pile on a reshuffle.
drawCardKeepsBottom(prev, player, seed) ==
    IF Len(prev.deck) = 0 /\ Len(prev.discardPile) <= 1
    THEN [prev EXCEPT !.currentTurn = OtherSide(player)]
    ELSE LET reshuffle   == Len(prev.deck) = 0
             deck        == IF reshuffle
                            THEN shuffleDeck(Tail(prev.discardPile), seed)
                            ELSE prev.deck
             discardPile == IF reshuffle
                            THEN <<Head(prev.discardPile)>>
                            ELSE prev.discardPile
         IN  [prev EXCEPT
                !.deck        = Tail(deck),
                !.discardPile = discardPile,
                !.playerHand  = IF player = "player" THEN Append(prev.playerHand, deck[1])
                                ELSE prev.playerHand,
                !.aiHand      = IF player = "ai" THEN Append(prev.aiHand, deck[1])
                                ELSE prev.aiHand]

\* drawCard handing over the last discarded card where it should skip.
drawCardTakesLastDiscard(prev, player, seed) ==
    IF Len(prev.deck) = 0 /\ Len(prev.discardPile) = 0
    THEN [prev EXCEPT !.currentTurn = OtherSide(player)]
    ELSE LET reshuffle   == Len(prev.deck) = 0
             deck        == IF reshuffle
                            THEN shuffleDeck(prev.discardPile, seed)
                            ELSE prev.deck
             discardPile == IF reshuffle THEN <<>> ELSE prev.discardPile
         IN  [prev EXCEPT
                !.deck        = Tail(deck),
                !.discardPile = discardPile,
                !.currentTurn = IF reshuffle /\ Len(prev.discardPile) = 1
                                THEN OtherSide(player) ELSE prev.currentTurn,
                !.playerHand  = IF player = "player" THEN Append(prev.playerHand, deck[1])
                                ELSE prev.playerHand,
                !.aiHand      = IF player = "ai" THEN Append(prev.aiHand, deck[1])
                                ELSE prev.aiHand]

\* drawCard recycling the whole discard pile, its top card included.
drawCardRecyclesAll(prev, player, seed) ==
    IF Len(prev.deck) = 0 /\ Len(prev.discardPile) <= 1
    THEN [prev EXCEPT !.currentTurn = OtherSide(player)]
    ELSE LET reshuffle   == Len(prev.deck) = 0
             deck        == IF reshuffle
                            THEN shuffleDeck(prev.discardPile, seed)
                            ELSE prev.deck
             discardPile == IF reshuffle THEN <<>> ELSE prev.discardPile
         IN  [prev EXCEPT
                !.deck        = Tail(deck),
                !.discardPile = discardPile,
                !.playerHand  = IF player = "player" THEN Append(prev.playerHand, deck[1])
                                ELSE prev.playerHand,
                !.aiHand      = IF player = "ai" THEN Append(prev.aiHand, deck[1])
                                ELSE prev.aiHand]

\* drawCard without deck.slice(1): the drawn card stays on the draw pile.
drawCardKeepsDeck(prev, player, seed) ==
    IF Len(prev.deck) = 0 /\ Len(prev.discardPile) <= 1
    THEN [prev EXCEPT !.currentTurn = OtherSide(player)]
    ELSE LET reshuffle   == Len(prev.deck) = 0
             deck        == IF reshuffle
                            THEN shuffleDeck(ButLast(prev.discardPile), seed)
                            ELSE prev.deck
             discardPile == IF reshuffle
                            THEN <<Last(prev.discardPile)>>
                            ELSE prev.discardPile
         IN  [prev EXCEPT
                !.deck        = deck,
                !.discardPile = discardPile,
                !.playerHand  = IF player = "player" THEN Append(prev.playerHand, deck[1])
                                ELSE prev.playerHand,
                !.aiHand      = IF player = "ai" THEN Append(prev.aiHand, deck[1])
                                ELSE prev.aiHand]

\* drawCard passing the turn after a card was drawn, as it does on a skip.
drawCardPassesTurn(prev, player, seed) ==
    IF Len(prev.deck) = 0 /\ Len(prev.discardPile) <= 1
    THEN [prev EXCEPT !.currentTurn = OtherSide(player)]
    ELSE LET reshuffle   == Len(prev.deck) = 0
             deck        == IF reshuffle
                            THEN shuffleDeck(ButLast(prev.discardPile), seed)
                            ELSE prev.deck
             discardPile == IF reshuffle
                            THEN <<Last(prev.discardPile)>>
                            ELSE prev.discardPile
         IN  [prev EXCEPT
                !.deck        = Tail(deck),
                !.discardPile = discardPile,
                !.currentTurn = OtherSide(player),
                !.playerHand  = IF player = "player" THEN Append(prev.playerHand, deck[1])
                                ELSE prev.playerHand,
                !.aiHand      = IF player = "ai" THEN Append(prev.aiHand, deck[1])
                                ELSE prev.aiHand]

(***************************************************************************)
(* drawCard (App.tsx:103-140): the updater, applied to prev.               *)
(***************************************************************************)
drawCard(prev, player, seed) ==
    IF Len(prev.deck) = 0 /\ Len(prev.discardPile) <= 1
    THEN \* No cards to draw, skip turn
         [prev EXCEPT !.currentTurn = OtherSide(player)]
    ELSE LET reshuffle   == Len(prev.deck) = 0
             deck        == IF reshuffle
                            THEN shuffleDeck(ButLast(prev.discardPile), seed)
                            ELSE prev.deck
             discardPile == IF reshuffle
                            THEN <<Last(prev.discardPile)>>
                            ELSE prev.discardPile
             newCard     == deck[1]
             newDeck     == Tail(deck)
         IN  [prev EXCEPT
                !.deck        = newDeck,
                !.discardPile = discardPile,
                !.playerHand  = IF player = "player" THEN Append(prev.playerHand, newCard)
                                ELSE prev.playerHand,
                !.aiHand      = IF player = "ai" THEN Append(prev.aiHand, newCard)
                                ELSE prev.aiHand]

(***************************************************************************)
(* The player's handlers.  gameState is the state of the render the        *)
(* handler was created in, prev the state its updater is applied to.       *)
(***************************************************************************)
\* The updater of a played 8 (App.tsx:151-162)
PlayEightUpdater(prev, card) ==
    IF ~InHand(prev.playerHand, card) THEN prev
    ELSE [prev EXCEPT
            !.playerHand         = WithoutCard(prev.playerHand, card),
            !.discardPile        = Append(prev.discardPile, card),
            !.isSuitSelectorOpen = TRUE,
            !.currentSuit        = card.suit]

\* The updater of a normal play leaving the active suit as it was.
PlayNormalUpdaterKeepsSuit(prev, card) ==
    IF ~InHand(prev.playerHand, card) THEN prev
    ELSE [prev EXCEPT
            !.playerHand  = WithoutCard(prev.playerHand, card),
            !.discardPile = Append(prev.discardPile, card),
            !.currentTurn = "ai"]

\* The updater of a normal play without its card-in-hand guard.
PlayNormalUpdaterNoFind(prev, card) ==
    [prev EXCEPT
        !.playerHand  = WithoutCard(prev.playerHand, card),
        !.discardPile = Append(prev.discardPile, card),
        !.currentTurn = "ai",
        !.currentSuit = card.suit]

\* The updater of a normal play (App.tsx:165-176)
PlayNormalUpdater(prev, card) ==
    IF ~InHand(prev.playerHand, card) THEN prev
    ELSE [prev EXCEPT
            !.playerHand  = WithoutCard(prev.playerHand, card),
            !.discardPile = Append(prev.discardPile, card),
            !.currentTurn = "ai",
            !.currentSuit = card.suit]

\* handlePlayerCardClick without the isValidMove test.
handlePlayerCardClickUnchecked(gameState, prev, card) ==
    IF gameState.currentTurn # "player" \/ gameState.status # "playing" THEN prev
    ELSE IF card.rank = "8" THEN PlayEightUpdater(prev, card)
         ELSE PlayNormalUpdater(prev, card)

\* handlePlayerCardClick (App.tsx:143-183)
handlePlayerCardClick(gameState, prev, card) ==
    IF gameState.currentTurn # "player" \/ gameState.status # "playing" THEN prev
    ELSE IF isValidMove(card, TopCard(gameState.discardPile), gameState.currentSuit)
         THEN IF card.rank = "8" THEN PlayEightUpdater(prev, card)
              ELSE PlayNormalUpdater(prev, card)
         ELSE prev

\* handleSuitSelect leaving the turn where it was.
handleSuitSelectKeepsTurn(prev, suit) ==
    [prev EXCEPT
        !.currentSuit        = suit,
        !.isSuitSelectorOpen = FALSE]

\* handleSuitSelect (App.tsx:186-194)
handleSuitSelect(prev, suit) ==
    [prev EXCEPT
        !.currentSuit        = suit,
        !.isSuitSelectorOpen = FALSE,
        !.currentTurn        = "ai"]

\* A cancellation that reads newTopCard?.suit and so never throws.
CancelNeverThrows(prev) == FALSE

\* handleCancelSuitSelection reads newTopCard.suit of an undefined newTopCard
\* (a TypeError inside the updater) when fewer than two cards are discarded.
CancelThrows(prev) == Len(prev.discardPile) < 2

\* handleCancelSuitSelection (App.tsx:197-237)
handleCancelSuitSelection(prev) ==
    LET playedEight         == TopCard(prev.discardPile)
        previousDiscardPile == ButLast(prev.discardPile)
        newTopCard          == TopCard(previousDiscardPile)
    IN  [prev EXCEPT
            !.playerHand         = Append(prev.playerHand, playedEight),
            !.discardPile        = previousDiscardPile,
            !.isSuitSelectorOpen = FALSE,
            !.currentSuit        = newTopCard.suit]

\* handlePlayerDraw (App.tsx:240-243)
handlePlayerDraw(gameState, prev, seed) ==
    IF gameState.currentTurn # "player" \/ gameState.status # "playing" THEN prev
    ELSE drawCard(prev, "player", seed)

(***************************************************************************)
(* The AI's move (App.tsx:249-299), decided on the state captured by the   *)
(* timeout callback (snap) and applied to prev.                            *)
(***************************************************************************)
validMoves(snap) ==
    SelectSeq(snap.aiHand,
              LAMBDA card : isValidMove(card, TopCard(snap.discardPile), snap.currentSuit))

nonEights(snap) == SelectSeq(validMoves(snap), LAMBDA c : c.rank # "8")

eights(snap) == SelectSeq(validMoves(snap), LAMBDA c : c.rank = "8")

\* Object.keys(suitCounts): the suits of the cards other than cardToPlay, in
\* the order in which the hand first shows them.
RECURSIVE SuitKeys(_, _, _)
SuitKeys(hand, cardToPlay, keys) ==
    IF Len(hand) = 0 THEN keys
    ELSE LET c == Head(hand)
             seen == \E i \in 1..Len(keys) : keys[i] = c.suit
         IN  SuitKeys(Tail(hand), cardToPlay,
                      IF c.id # cardToPlay.id /\ ~seen THEN Append(keys, c.suit) ELSE keys)

\* suitCounts[suit]; 0 stands for undefined (a key's count is at least 1).
suitCount(hand, cardToPlay, suit) ==
    Len(SelectSeq(hand, LAMBDA c : c.id # cardToPlay.id /\ c.suit = suit))

\* The reduce with >= in place of >: a tie keeps the earlier key.
RECURSIVE ReduceSuitKeepsFirst(_, _, _, _, _)
ReduceSuitKeepsFirst(hand, cardToPlay, keys, i, a) ==
    IF i > Len(keys) THEN a
    ELSE LET b == keys[i]
         IN  ReduceSuitKeepsFirst(hand, cardToPlay, keys, i + 1,
                        IF suitCount(hand, cardToPlay, a) >= suitCount(hand, cardToPlay, b)
                        THEN a ELSE b)

\* keys.reduce((a, b) => suitCounts[a] > suitCounts[b] ? a : b, 'hearts');
\* undefined > n is false.
RECURSIVE ReduceSuit(_, _, _, _, _)
ReduceSuit(hand, cardToPlay, keys, i, a) ==
    IF i > Len(keys) THEN a
    ELSE LET b == keys[i]
         IN  ReduceSuit(hand, cardToPlay, keys, i + 1,
                        IF suitCount(hand, cardToPlay, a) > suitCount(hand, cardToPlay, b)
                        THEN a ELSE b)

bestSuit(aiHand, cardToPlay) ==
    ReduceSuit(aiHand, cardToPlay, SuitKeys(aiHand, cardToPlay, <<>>), 1, "hearts")

\* Which branch the callback takes.
AIDecision(snap) ==
    IF Len(nonEights(snap)) > 0 THEN "play"
    ELSE IF Len(eights(snap)) > 0 THEN "eight"
    ELSE "aiDraw"

\* The callback trying its 8s before its other valid cards.
AIMoveEightsFirst(snap, prev, seed) ==
    IF Len(eights(snap)) > 0
    THEN LET cardToPlay == eights(snap)[1]
         IN  [prev EXCEPT
                !.aiHand      = WithoutCard(prev.aiHand, cardToPlay),
                !.discardPile = Append(prev.discardPile, cardToPlay),
                !.currentTurn = "player",
                !.currentSuit = bestSuit(snap.aiHand, cardToPlay)]
    ELSE IF Len(nonEights(snap)) > 0
    THEN LET cardToPlay == nonEights(snap)[1]
         IN  [prev EXCEPT
                !.aiHand      = WithoutCard(prev.aiHand, cardToPlay),
                !.discardPile = Append(prev.discardPile, cardToPlay),
                !.currentTurn = "player",
                !.currentSuit = cardToPlay.suit]
    ELSE drawCard(prev, "ai", seed)

\* The updater the callback hands to setGameState, applied to prev.
AIMove(snap, prev, seed) ==
    IF Len(nonEights(snap)) > 0
    THEN LET cardToPlay == nonEights(snap)[1]
         IN  [prev EXCEPT
                !.aiHand      = WithoutCard(prev.aiHand, cardToPlay),
                !.discardPile = Append(prev.discardPile, cardToPlay),
                !.currentTurn = "player",
                !.currentSuit = cardToPlay.suit]
    ELSE IF Len(eights(snap)) > 0
    THEN LET cardToPlay == eights(snap)[1]
         IN  [prev EXCEPT
                !.aiHand      = WithoutCard(prev.aiHand, cardToPlay),
                !.discardPile = Append(prev.discardPile, cardToPlay),
                !.currentTurn = "player",
                !.currentSuit = bestSuit(snap.aiHand, cardToPlay)]
    ELSE drawCard(prev, "ai", seed)

(***************************************************************************)
(* The effects, run at the commit that takes the state from old to new.    *)
(***************************************************************************)
\* Dependencies of the winner effect (App.tsx:77)
WinnerDeps(g) == <<Len(g.playerHand), Len(g.aiHand), g.status>>

\* The winner effect (App.tsx:60-77): the update it leaves to be rendered.
WinnerEffect(old, new, pending) ==
    IF WinnerDeps(old) = WinnerDeps(new) THEN pending
    ELSE IF new.status # "playing" THEN pending
    ELSE IF Len(new.playerHand) = 0 THEN "player"
    ELSE IF Len(new.aiHand) = 0 THEN "ai"
    ELSE pending

\* The winner effect's update with the AI's win recorded as a draw.
WinnerUpdaterDraw(prev, who) ==
    IF who = "player" THEN [prev EXCEPT !.status = "won", !.winner = "player"]
    ELSE [prev EXCEPT !.status = "draw", !.winner = "ai"]

\* The update of the winner effect (App.tsx:66, 74)
WinnerUpdater(prev, who) ==
    IF who = "player" THEN [prev EXCEPT !.status = "won", !.winner = "player"]
    ELSE [prev EXCEPT !.status = "lost", !.winner = "ai"]

\* Dependencies of the AI effect (App.tsx:303)
AIDeps(g) == <<g.currentTurn, g.status, g.aiHand, g.discardPile, g.currentSuit>>

\* The pending timeout: its callback closes over the gameState of the render
\* whose effect set it (App.tsx:249-250).
Captured(g) == [set |-> TRUE, gameState |-> g]

\* The AI effect without its cleanup: a timer that was set stays set.
AIEffectNoCleanup(old, new, oldTimer) ==
    IF oldTimer.set THEN oldTimer
    ELSE IF AIDeps(old) = AIDeps(new) THEN oldTimer
    ELSE IF new.currentTurn # "ai" \/ new.status # "playing" THEN NoTimer
    ELSE Captured(new)

\* The AI effect (App.tsx:246-303): cleanup of the old timer and the new one.
AIEffect(old, new, oldTimer) ==
    IF AIDeps(old) = AIDeps(new) THEN oldTimer
    ELSE IF new.currentTurn # "ai" \/ new.status # "playing" THEN NoTimer
    ELSE Captured(new)

\* What a drawCard by a side of prev does.
DrawKind(prev) ==
    IF Len(prev.deck) > 0 THEN "draw"
    ELSE IF Len(prev.discardPile) <= 1 THEN "skip"
    ELSE "reshuffle"

\* A commit of the state new by the operation op of the side by, and its
\* effects.  An updater that returns prev renders nothing.
Commit(new, by, op, oldTimer, pending, n) ==
    IF new = gs /\ op # "start"
    THEN UNCHANGED vars
    ELSE /\ gs' = new
         /\ timer' = AIEffect(gs, new, oldTimer)
         /\ pendingWinner' = WinnerEffect(gs, new, pending)
         /\ fault' = FALSE
         /\ intents' = n
         /\ lastOp' = [by |-> by, op |-> op]

\* The state of the render the handlers of the page were created in.
Rendered == gs

(***************************************************************************)
(* Actions.                                                                *)
(***************************************************************************)
\* A click on one of the three buttons that call startNewGame.  It replaces
\* the state, and with it what an earlier effect's update would have set.
StartGame ==
    /\ ~fault
    /\ \E seed \in Seeds :
          Commit(startNewGame(seed), "player", "start", timer, "none", 0)

\* A click on a card of the player's hand (Hand is disabled unless it is
\* the player's turn, App.tsx:456).
PlayerCardClick ==
    /\ ~fault
    /\ intents < MaxIntents
    /\ Rendered.currentTurn = "player"
    /\ \E i \in 1..Len(Rendered.playerHand) :
          LET card == Rendered.playerHand[i]
          IN  Commit(handlePlayerCardClick(Rendered, gs, card), "player",
                     IF card.rank = "8" THEN "eight" ELSE "play",
                     timer, pendingWinner, intents + 1)

\* A click on the draw pile (App.tsx:369, 385).
PlayerDraw ==
    /\ ~fault
    /\ intents < MaxIntents
    /\ \E seed \in Seeds :
          Commit(handlePlayerDraw(Rendered, gs, seed), "player", DrawKind(gs),
                 timer, pendingWinner, intents + 1)

\* A suit chosen in the SuitSelector (rendered while isSuitSelectorOpen,
\* App.tsx:464-466).
SuitSelect ==
    /\ ~fault
    /\ intents < MaxIntents
    /\ Rendered.isSuitSelectorOpen
    /\ \E i \in 1..Len(SUITS) :
          Commit(handleSuitSelect(gs, SUITS[i]), "player", "select",
                 timer, pendingWinner, intents + 1)

\* The SuitSelector's onCancel.
CancelSuitSelection ==
    /\ ~fault
    /\ intents < MaxIntents
    /\ Rendered.isSuitSelectorOpen
    /\ IF CancelThrows(gs)
       THEN /\ fault' = TRUE
            /\ lastOp' = [by |-> "player", op |-> "cancel"]
            /\ UNCHANGED <<gs, timer, pendingWinner, intents>>
       ELSE Commit(handleCancelSuitSelection(gs), "player", "cancel",
                   timer, pendingWinner, intents + 1)

\* The AI's timeout fires.
AITimerFires ==
    /\ ~fault
    /\ timer.set
    /\ pendingWinner = "none"
    /\ \E seed \in Seeds :
          Commit(AIMove(timer.gameState, gs, seed), "ai",
                 IF AIDecision(timer.gameState) = "aiDraw" THEN DrawKind(gs)
                 ELSE AIDecision(timer.gameState),
                 NoTimer, pendingWinner, intents)

\* The winner effect's update is rendered.
ApplyWinner ==
    /\ ~fault
    /\ pendingWinner # "none"
    /\ Commit(WinnerUpdater(gs, pendingWinner), "system", "winner", timer, "none", intents)

Next ==
    \/ StartGame
    \/ PlayerCardClick
    \/ PlayerDraw
    \/ SuitSelect
    \/ CancelSuitSelection
    \/ AITimerFires
    \/ ApplyWinner

Spec == Init /\ [][Next]_vars

(***************************************************************************)
(* Properties.                                                             *)
(***************************************************************************)
Sides == {"player", "ai"}

HandOf(g, side) == IF side = "player" THEN g.playerHand ELSE g.aiHand

AllPiles(g) == g.deck \o g.discardPile \o g.playerHand \o g.aiHand

\* C1. Card conservation: once a game has been started, draw pile, discard
\* pile and the two hands together hold every card of the deck exactly once.
C1_Conservation ==
    gs.status # "start" =>
        /\ Len(AllPiles(gs)) = Len(createDeck)
        /\ {AllPiles(gs)[i] : i \in 1..Len(AllPiles(gs))} = AllCards

\* A reshuffle has just recycled the discard pile.
C1_Witness == lastOp.op = "reshuffle" /\ gs.status = "playing"

\* A step in which side by drew a card from a non-empty draw pile.
IsDrawStep(by) == lastOp' = [by |-> by, op |-> "draw"] /\ gs' # gs

\* The head of the draw pile went to the end of by's hand.
HeadMoved(by) ==
    /\ Len(gs.deck) > 0
    /\ gs'.deck = Tail(gs.deck)
    /\ HandOf(gs', by) = Append(HandOf(gs, by), Head(gs.deck))
    /\ HandOf(gs', OtherSide(by)) = HandOf(gs, OtherSide(by))

C3_CancelUndo ==
    \A i \in 1..Len(gs.playerHand) :
        LET c         == gs.playerHand[i]
            played    == handlePlayerCardClick(Rendered, gs, c)
            cancelled == handleCancelSuitSelection(played)
        IN  (c.rank = "8" /\ played # gs) =>
                /\ cancelled.discardPile = gs.discardPile
                /\ cancelled.currentSuit = gs.currentSuit
                /\ InHand(cancelled.playerHand, c)

\* C4. Terminal lock: once the status is won or lost, only StartGame changes
\* the game state.
C4_TerminalLock ==
    [][(gs.status \in {"won", "lost"} /\ gs' # gs) => lastOp'.op = "start"]_vars

\* C5. Pending-selection exclusivity: while the suit selection is pending, no
\* play and no draw of either side changes the state; only a suit selection,
\* a cancellation or StartGame does (and the rendering of the game's end).
C5_PendingExclusive ==
    [][(gs.isSuitSelectorOpen /\ gs' # gs) =>
            lastOp'.op \in {"select", "cancel", "start", "winner"}]_vars

\* C6. Immediate terminal check: the state a play leaves with an empty hand
\* already has status won or lost, so that no state has status playing with
\* an empty hand.
C6_ImmediateTerminal ==
    gs.status = "playing" => (Len(gs.playerHand) > 0 /\ Len(gs.aiHand) > 0)

\* C7. Lifecycle: the status is never draw; it changes only from start to
\* playing, from playing to won or lost, and from won or lost to playing by
\* StartGame.
C7_Lifecycle ==
    [][/\ gs'.status \in {"start", "playing", "won", "lost"}
       /\ gs'.status # gs.status =>
            \/ gs.status = "start" /\ gs'.status = "playing" /\ lastOp'.op = "start"
            \/ gs.status = "playing" /\ gs'.status \in {"won", "lost"}
            \/ gs.status \in {"won", "lost"} /\ gs'.status = "playing"
                 /\ lastOp'.op = "start"]_vars

\* The AI's win has been recorded.
C7_Witness == gs.status = "lost" /\ lastOp.op = "winner"

SameForAI(a, b) ==
    /\ a.playerHand = b.playerHand
    /\ a.aiHand = b.aiHand
    /\ a.discardPile = b.discardPile
    /\ a.currentSuit = b.currentSuit
    /\ a.currentTurn = b.currentTurn
    /\ a.status = b.status

\* C9. No stale AI decision: an AI decision is applied only to a state whose
\* hands, discard pile, active suit, turn and status are those of the state
\* it was scheduled in, with the turn the AI's and the status playing.
C9_NoStaleDecision ==
    [][(lastOp'.by = "ai" /\ gs' # gs) =>
            /\ timer.set
            /\ SameForAI(timer.gameState, gs)
            /\ gs.currentTurn = "ai"
            /\ gs.status = "playing"]_vars

\* An AI decision has been applied after the player's play.
C9_Witness == lastOp = [by |-> "ai", op |-> "play"] /\ intents >= 1

\* C10. Turn exclusion: while the turn is the AI's, nothing the player does
\* changes the game state, except StartGame.
C10_TurnExclusion ==
    [][(gs.currentTurn = "ai" /\ gs' # gs /\ lastOp'.by = "player") =>
            lastOp'.op = "start"]_vars

SuitSet == {SUITS[i] : i \in 1..Len(SUITS)}

\* C11. In every state whose status is playing, won or lost the discard pile
\* holds at least one card.
C11_DiscardNonEmpty ==
    gs.status \in {"playing", "won", "lost"} => Len(gs.discardPile) >= 1

\* A cancellation has taken the pile back to a single card.
C11_Witness == lastOp.op = "cancel" /\ ~fault /\ Len(gs.discardPile) = 1

\* C12. The active suit is one of the four suits in every state whose status
\* is playing, won or lost, and it is null exactly while the status is start.
C12_ActiveSuit ==
    /\ gs.status \in {"playing", "won", "lost"} => gs.currentSuit \in SuitSet
    /\ gs.currentSuit = null <=> gs.status = "start"

\* A cancellation has restored the active suit from the card below the 8.
C12_Witness ==
    /\ lastOp.op = "cancel" /\ ~fault
    /\ gs.currentSuit = Last(gs.discardPile).suit

\* The card is not in the player's hand, or is not a valid move.
Rejectable(c) ==
    \/ ~InHand(gs.playerHand, c)
    \/ ~isValidMove(c, TopCard(gs.discardPile), gs.currentSuit)

\* C13. In every reachable state, a play of a card that is absent from the
\* player's hand or fails isValidMove leaves the whole game state as it is;
\* and isValidMove always has a top card to read when the handler calls it.
C13_RejectedPlay ==
    /\ \A c \in AllCards :
          Rejectable(c) => handlePlayerCardClick(Rendered, gs, c) = gs
    /\ (gs.currentTurn = "player" /\ gs.status = "playing") =>
          Len(gs.discardPile) > 0

\* On the player's turn the hand holds a card that is not a valid move, and
\* a card that would be valid is in another pile.
C13_Witness ==
    /\ gs.status = "playing" /\ gs.currentTurn = "player"
    /\ \E i \in 1..Len(gs.playerHand) :
          ~isValidMove(gs.playerHand[i], TopCard(gs.discardPile), gs.currentSuit)
    /\ \E c \in AllCards :
          /\ ~InHand(gs.playerHand, c)
          /\ c.rank # "8"
          /\ isValidMove(c, TopCard(gs.discardPile), gs.currentSuit)

\* C14. In every playing state in which no suit selection is pending, a suit
\* selection and a cancellation leave the game state as it is, and the
\* cancellation does not throw.
C14_SelectCancelOnlyPending ==
    (gs.status = "playing" /\ ~gs.isSuitSelectorOpen) =>
        /\ \A s \in SuitSet : handleSuitSelect(gs, s) = gs
        /\ ~CancelThrows(gs)
        /\ handleCancelSuitSelection(gs) = gs

\* The cards of a sequence, as a set.
CardsOf(seq) == {seq[i] : i \in 1..Len(seq)}

\* A step in which side by called drawCard.
IsDrawCardStep(by) ==
    lastOp'.by = by /\ lastOp'.op \in {"draw", "skip", "reshuffle"} /\ gs' # gs

\* C15. Reshuffle: a drawCard on an empty draw pile and a discard pile of
\* more than one card leaves the former top card alone on the discard pile,
\* and the other former discard cards are the new draw pile together with
\* the one card added to the acting side's hand.
C15_Reshuffle ==
    [][\A by \in Sides :
         (IsDrawCardStep(by) /\ Len(gs.deck) = 0 /\ Len(gs.discardPile) > 1) =>
            /\ gs'.discardPile = <<Last(gs.discardPile)>>
            /\ Len(HandOf(gs', by)) = Len(HandOf(gs, by)) + 1
            /\ ButLast(HandOf(gs', by)) = HandOf(gs, by)
            /\ Len(gs'.deck) = Len(gs.discardPile) - 2
            /\ CardsOf(gs'.deck) \cup {Last(HandOf(gs', by))}
                    = CardsOf(ButLast(gs.discardPile))
            /\ Last(HandOf(gs', by)) \notin CardsOf(gs'.deck)
            /\ HandOf(gs', OtherSide(by)) = HandOf(gs, OtherSide(by))]_vars

\* A reshuffle has left cards on the new draw pile.
C15_Witness == lastOp.op = "reshuffle" /\ Len(gs.deck) >= 1

\* C16. Skip: a drawCard on an empty draw pile and a discard pile of one card
\* changes nothing but the turn, which passes to the other side.
C16_Skip ==
    [][\A by \in Sides :
         (IsDrawCardStep(by) /\ Len(gs.deck) = 0 /\ Len(gs.discardPile) = 1) =>
            /\ gs.currentTurn = by
            /\ gs' = [gs EXCEPT !.currentTurn = OtherSide(by)]]_vars

\* The AI has passed with nothing to draw.
C16_Witness ==
    /\ lastOp = [by |-> "ai", op |-> "skip"]
    /\ gs.currentTurn = "player"
    /\ Len(gs.deck) = 0 /\ Len(gs.discardPile) = 1

\* Number of cards of a suit in a hand.
CountSuit(hand, s) == Len(SelectSeq(hand, LAMBDA c : c.suit = s))

\* The suits with the highest count in a hand.
TopSuits(hand) ==
    {s \in SuitSet : \A t \in SuitSet : CountSuit(hand, t) <= CountSuit(hand, s)}

\* Position of the first card of a suit in a hand that holds the suit.
FirstPos(hand, s) ==
    CHOOSE i \in 1..Len(hand) :
        hand[i].suit = s /\ \A j \in 1..(i - 1) : hand[j].suit # s

\* The first of hearts, diamonds, clubs, spades among the top suits.
FixedPrecedenceSuit(hand) ==
    IF Len(hand) = 0 THEN "hearts"
    ELSE SUITS[CHOOSE i \in 1..Len(SUITS) :
                 /\ SUITS[i] \in TopSuits(hand)
                 /\ \A j \in 1..(i - 1) : SUITS[j] \notin TopSuits(hand)]

\* The top suit whose first card comes latest in the hand.
LatestTopSuit(hand) ==
    IF Len(hand) = 0 THEN "hearts"
    ELSE CHOOSE s \in TopSuits(hand) :
            \A t \in TopSuits(hand) : FirstPos(hand, t) <= FirstPos(hand, s)

\* A step in which the AI played an 8.
IsAIEightStep == lastOp' = [by |-> "ai", op |-> "eight"] /\ gs' # gs

\* C17 as stated: when the AI plays an 8 the new active suit has the highest
\* count among its remaining cards, ties going to the first of hearts,
\* diamonds, clubs, spades whatever the order of the hand; hearts when no
\* card remains.
C17_FixedPrecedence ==
    [][IsAIEightStep => gs'.currentSuit = FixedPrecedenceSuit(gs'.aiHand)]_vars

\* C17 amended: when the AI plays an 8 the new active suit has the highest
\* count among its remaining cards, ties going to the tied suit whose first
\* card comes latest in the hand; hearts when no card remains.
C17_LatestTopSuit ==
    [][IsAIEightStep =>
            /\ gs'.aiHand = WithoutCard(gs.aiHand, Last(gs'.discardPile))
            /\ Len(gs'.aiHand) > 0 => gs'.currentSuit \in TopSuits(gs'.aiHand)
            /\ gs'.currentSuit = LatestTopSuit(gs'.aiHand)]_vars

\* The AI has played an 8 with two suits tied in its remaining hand, and has
\* not named the one that comes first in the fixed precedence.
C17_Witness ==
    /\ lastOp = [by |-> "ai", op |-> "eight"]
    /\ \E s, t \in TopSuits(gs.aiHand) : s # t
    /\ gs.currentSuit # FixedPrecedenceSuit(gs.aiHand)
    /\ gs.currentSuit = LatestTopSuit(gs.aiHand)

\* The card at position i of the AI's hand is a legal non-8 in this state.
LegalNonEightAt(i) ==
    /\ gs.aiHand[i].rank # "8"
    /\ isValidMove(gs.aiHand[i], TopCard(gs.discardPile), gs.currentSuit)

\* The card at position i of the AI's hand is an 8.
EightAt(i) == gs.aiHand[i].rank = "8"

\* A step in which the card at position i of the AI's hand went from the
\* hand to the top of the discard pile.
PlayedAt(i) ==
    /\ gs'.discardPile = Append(gs.discardPile, gs.aiHand[i])
    /\ gs'.aiHand = WithoutCard(gs.aiHand, gs.aiHand[i])

\* C18. Every move of the AI is decided by its hand, the top discard and the
\* active suit alone: it plays the first legal non-8 of its hand if there is
\* one, otherwise its first 8 if it holds one, otherwise it draws.
C18_MovePriority ==
    [][(lastOp'.by = "ai" /\ gs' # gs) =>
        LET n == Len(gs.aiHand)
        IN  IF \E i \in 1..n : LegalNonEightAt(i)
            THEN /\ lastOp'.op = "play"
                 /\ \E i \in 1..n :
                       /\ LegalNonEightAt(i)
                       /\ \A j \in 1..(i - 1) : ~LegalNonEightAt(j)
                       /\ PlayedAt(i)
            ELSE IF \E i \in 1..n : EightAt(i)
            THEN /\ lastOp'.op = "eight"
                 /\ \E i \in 1..n :
                       /\ EightAt(i)
                       /\ \A j \in 1..(i - 1) : ~EightAt(j)
                       /\ PlayedAt(i)
            ELSE /\ lastOp'.op \in {"draw", "skip", "reshuffle"}
                 /\ gs'.discardPile = gs.discardPile
                    \/ lastOp'.op = "reshuffle"]_vars

\* The AI has played an 8 while it held a non-8 it could not play.
C18_Witness ==
    /\ lastOp = [by |-> "ai", op |-> "eight"]
    /\ \E i \in 1..Len(gs.aiHand) : gs.aiHand[i].rank # "8"

\* The rule of the game: an 8, the active suit, or the rank of the top card.
Legal(c, top, suit) == c.rank = "8" \/ c.suit = suit \/ c.rank = top.rank

\* C19. isValidMove is the rule, for every card, top card and active suit; a
\* non-8 that only matches the printed suit of the top card is illegal and a
\* rank match is legal on any suit; and in every reachable state of the
\* player's turn the playable cards are the cards of the hand the rule
\* allows on the state's top card and active suit.
C19_MoveLegality ==
    /\ \A c \in AllCards, top \in AllCards, suit \in SuitSet :
          /\ isValidMove(c, top, suit) <=> Legal(c, top, suit)
          /\ (c.rank # "8" /\ c.suit = top.suit /\ c.suit # suit /\ c.rank # top.rank)
                => ~isValidMove(c, top, suit)
          /\ (c.rank = top.rank) => isValidMove(c, top, suit)
    /\ (gs.status = "playing" /\ gs.currentTurn = "player") =>
          playableCardIds(gs) =
            {c.id : c \in {d \in CardsOf(gs.playerHand) :
                              Legal(d, TopCard(gs.discardPile), gs.currentSuit)}}

\* On the player's turn the hand holds a non-8 of the printed suit of the top
\* card, which is an 8 whose named suit is another one: the card is not
\* playable.
C19_Witness ==
    /\ gs.status = "playing" /\ gs.currentTurn = "player"
    /\ \E i \in 1..Len(gs.playerHand) :
          LET c == gs.playerHand[i] top == TopCard(gs.discardPile)
          IN  /\ c.rank # "8" /\ c.suit = top.suit
              /\ c.suit # gs.currentSuit /\ c.rank # top.rank
              /\ c.id \notin playableCardIds(gs)

\* C20. Whatever the state it is issued in, StartGame leaves a state with
\* HandSize cards in each hand, one card on the discard pile, the rest of the
\* deck on the draw pile, the player to move, status playing, no selection
\* pending and no winner; the hands are the first and the second block of
\* HandSize cards of a shuffled deck, the discard pile is the card after
\* them, whose suit is the active suit, and the draw pile is what follows.
C20_StartGame ==
    [][lastOp'.op = "start" =>
        /\ Len(gs'.playerHand) = HandSize
        /\ Len(gs'.aiHand) = HandSize
        /\ Len(gs'.discardPile) = 1
        /\ Len(gs'.deck) = Len(createDeck) - 2 * HandSize - 1
        /\ gs'.currentTurn = "player"
        /\ gs'.status = "playing"
        /\ gs'.isSuitSelectorOpen = FALSE
        /\ gs'.winner = null
        /\ gs'.currentSuit = gs'.discardPile[1].suit
        /\ pendingWinner' = "none"
        /\ timer' = NoTimer
        /\ \E seed \in Seeds :
              LET d == shuffleDeck(createDeck, seed)
              IN  /\ CardsOf(d) = AllCards /\ Len(d) = Len(createDeck)
                  /\ gs'.playerHand = SubSeq(d, 1, HandSize)
                  /\ gs'.aiHand = SubSeq(d, HandSize + 1, 2 * HandSize)
                  /\ gs'.discardPile = <<d[2 * HandSize + 1]>>
                  /\ gs'.deck = SubSeq(d, 2 * HandSize + 2, Len(d))]_vars

\* StartGame has just set up a game.
C20_Witness ==
    /\ lastOp.op = "start"
    /\ gs.status = "playing" /\ gs.currentTurn = "player"
    /\ Len(gs.deck) = Len(createDeck) - 2 * HandSize - 1
    /\ intents = 0

\* Identities of the cards of a hand that are valid moves in state g.
LegalIds(g, hand) ==
    {c.id : c \in {d \in CardsOf(hand) :
                     isValidMove(d, TopCard(g.discardPile), g.currentSuit)}}

\* The dependencies of the useMemo of playableCardIds (App.tsx:100).
PlayableDeps(g) ==
    <<g.playerHand, g.currentTurn, g.status, TopCard(g.discardPile), g.currentSuit>>

\* C21 as stated: in every reachable state the playable set is the set of
\* the valid cards of the hand of the side to move.
C21_LegalSetOfSideToMove ==
    playableCardIds(gs) = LegalIds(gs, HandOf(gs, gs.currentTurn))

\* C21 amended: in every reachable state the playable set is the set of the
\* valid cards of the player's hand while it is the player's turn and the
\* status is playing, and empty otherwise; and it is never stale: a step
\* that changes none of the memo's dependencies leaves the set as it is.
C21_LegalSetOfPlayer ==
    /\ [](playableCardIds(gs) =
             IF gs.currentTurn = "player" /\ gs.status = "playing"
             THEN LegalIds(gs, gs.playerHand) ELSE {})
    /\ [][PlayableDeps(gs') = PlayableDeps(gs) =>
             playableCardIds(gs') = playableCardIds(gs)]_vars

\* It is the AI's turn, the AI holds a valid card, and no card is playable.
C21_Witness ==
    /\ gs.status = "playing" /\ gs.currentTurn = "ai"
    /\ LegalIds(gs, gs.aiHand) # {}
    /\ playableCardIds(gs) = {}

\* C22. A play of an 8 by the player takes the 8 from the hand to the top of
\* the discard pile, makes the 8's suit the active suit, opens the suit
\* selection and leaves the turn with the player; and the AI makes no move
\* while the selection is open.
C22_PlayEight ==
    [][/\ (lastOp' = [by |-> "player", op |-> "eight"] /\ gs' # gs) =>
            \E i \in 1..Len(gs.playerHand) :
                LET c == gs.playerHand[i]
                IN  /\ c.rank = "8"
                    /\ gs' = [gs EXCEPT
                                !.playerHand         = WithoutCard(gs.playerHand, c),
                                !.discardPile        = Append(gs.discardPile, c),
                                !.currentSuit        = c.suit,
                                !.isSuitSelectorOpen = TRUE]
                    /\ gs'.currentTurn = "player"
       /\ (gs.isSuitSelectorOpen /\ gs' # gs) => lastOp'.by # "ai"]_vars

\* A step in which side by played a card other than an 8.
IsPlayStep(by) == lastOp' = [by |-> by, op |-> "play"] /\ gs' # gs

\* C23. A play of a card other than an 8, by either side, takes that card
\* from the acting hand to the top of the discard pile, makes its suit the
\* active suit, passes the turn to the other side and leaves the draw pile
\* and the other hand as they are.
C23_PlayNonEight ==
    [][\A by \in Sides : IsPlayStep(by) =>
          \E i \in 1..Len(HandOf(gs, by)) :
             LET c == HandOf(gs, by)[i]
             IN  /\ c.rank # "8"
                 /\ HandOf(gs', by) = WithoutCard(HandOf(gs, by), c)
                 /\ Len(HandOf(gs', by)) = Len(HandOf(gs, by)) - 1
                 /\ gs'.discardPile = Append(gs.discardPile, c)
                 /\ gs'.currentSuit = c.suit
                 /\ gs.currentTurn = by
                 /\ gs'.currentTurn = OtherSide(by)
                 /\ gs'.deck = gs.deck
                 /\ HandOf(gs', OtherSide(by)) = HandOf(gs, OtherSide(by))]_vars

\* The AI has answered a play of the player with a card other than an 8.
C23_Witness ==
    /\ lastOp = [by |-> "ai", op |-> "play"]
    /\ Last(gs.discardPile).rank # "8"
    /\ gs.currentSuit = Last(gs.discardPile).suit
    /\ gs.currentTurn = "player"

\* C24. A suit selection made while the selection is pending makes the chosen
\* suit the active suit, closes the selection and gives the turn to the AI,
\* leaving the draw pile, the discard pile and both hands as they are.
C24_SelectSuit ==
    [][lastOp'.op = "select" =>
          /\ gs.isSuitSelectorOpen
          /\ \E s \in SuitSet :
                gs' = [gs EXCEPT
                         !.currentSuit        = s,
                         !.isSuitSelectorOpen = FALSE,
                         !.currentTurn        = "ai"]
          /\ gs'.deck = gs.deck /\ gs'.discardPile = gs.discardPile
          /\ gs'.playerHand = gs.playerHand /\ gs'.aiHand = gs.aiHand]_vars

\* The player has named a suit other than the printed suit of the 8 played.
C24_Witness ==
    /\ lastOp.op = "select"
    /\ ~gs.isSuitSelectorOpen /\ gs.currentTurn = "ai"
    /\ Last(gs.discardPile).rank = "8"
    /\ gs.currentSuit # Last(gs.discardPile).suit

\* C25. A cancellation made while the selection is pending does not fail,
\* closes the selection, leaves the turn where it was, takes the top card of
\* the discard pile, which is the 8 just played, back to the end of the
\* player's hand and leaves the draw pile and the AI's hand as they are.
C25_Cancel ==
    [][lastOp'.op = "cancel" =>
          /\ gs.isSuitSelectorOpen
          /\ ~fault'
          /\ ~gs'.isSuitSelectorOpen
          /\ gs'.currentTurn = gs.currentTurn
          /\ Len(gs.discardPile) >= 1
          /\ Last(gs.discardPile).rank = "8"
          /\ gs'.playerHand = Append(gs.playerHand, Last(gs.discardPile))
          /\ gs'.discardPile = ButLast(gs.discardPile)
          /\ gs'.deck = gs.deck /\ gs'.aiHand = gs.aiHand]_vars

(***************************************************************************)
(* The AI's turn with a player who waits: while it is the AI's turn in a   *)
(* game being played the player issues no intent; the timeout set by the   *)
(* AI effect fires after AI_DELAY and an effect's update is rendered.      *)
(***************************************************************************)
PlayerWaits == gs.currentTurn = "ai" /\ gs.status = "playing"

AITurnNext ==
    \/ ~PlayerWaits /\ StartGame
    \/ ~PlayerWaits /\ PlayerCardClick
    \/ ~PlayerWaits /\ PlayerDraw
    \/ ~PlayerWaits /\ SuitSelect
    \/ ~PlayerWaits /\ CancelSuitSelection
    \/ AITimerFires
    \/ ApplyWinner

AITurnSpec ==
    /\ Init
    /\ [][AITurnNext]_vars
    /\ WF_vars(AITimerFires)
    /\ WF_vars(ApplyWinner)

\* C26. The AI's turn always ends: if the player issues no intent during the
\* AI's turn, every state of a game being played in which it is the AI's
\* turn is followed by a state in which it is the player's turn or the
\* status is lost.
C26_AITurnEnds ==
    (gs.currentTurn = "ai" /\ gs.status = "playing")
        ~> (gs.currentTurn = "player" \/ gs.status = "lost")
\* C27. Suit/top coupling: in every state with status playing whose top
\* discard card is not an 8, the active suit is the suit of that card.
C27_SuitTopCoupling ==
    (gs.status = "playing" /\ TopCard(gs.discardPile).rank # "8") =>
        gs.currentSuit = TopCard(gs.discardPile).suit

\* C28. Pending flag shape: in every state in which the suit selection is
\* pending it is the player's turn, the top discard card is an 8 and the
\* discard pile holds at least two cards; and a play of an 8 by the AI never
\* opens the selection.
C28_PendingShape ==
    /\ [](gs.isSuitSelectorOpen =>
            /\ gs.currentTurn = "player"
            /\ Len(gs.discardPile) >= 2
            /\ TopCard(gs.discardPile).rank = "8")
    /\ [][IsAIEightStep =>
            /\ gs'.isSuitSelectorOpen = gs.isSuitSelectorOpen
            /\ gs'.currentTurn = "player"]_vars

\* C29. Outcome consistency: won goes with an empty player hand and winner
\* player, lost with an empty AI hand and winner ai, playing and start with
\* no winner; and the two hands are never both empty in a game.
C29_OutcomeConsistency ==
    /\ gs.status = "won" => (Len(gs.playerHand) = 0 /\ gs.winner = "player")
    /\ gs.status = "lost" => (Len(gs.aiHand) = 0 /\ gs.winner = "ai")
    /\ gs.status \in {"playing", "start"} => gs.winner = null
    /\ gs.status # "start" => ~(Len(gs.playerHand) = 0 /\ Len(gs.aiHand) = 0)

\* C30. Frame of drawCard: a draw, a reshuffle-and-draw or a skip by a side
\* leaves the other side's hand, the active suit, the top discard card, the
\* status, the winner and the pending flag as they are; the acting hand
\* grows by exactly one card at its end, except on a skip, which leaves it.
C30_DrawFrame ==
    [][\A by \in Sides : IsDrawCardStep(by) =>
          /\ HandOf(gs', OtherSide(by)) = HandOf(gs, OtherSide(by))
          /\ gs'.currentSuit = gs.currentSuit
          /\ TopCard(gs'.discardPile) = TopCard(gs.discardPile)
          /\ gs'.status = gs.status
          /\ gs'.winner = gs.winner
          /\ gs'.isSuitSelectorOpen = gs.isSuitSelectorOpen
          /\ IF lastOp'.op = "skip"
             THEN HandOf(gs', by) = HandOf(gs, by)
             ELSE /\ Len(HandOf(gs', by)) = Len(HandOf(gs, by)) + 1
                  /\ ButLast(HandOf(gs', by)) = HandOf(gs, by)]_vars

\* The player has drawn a card while an 8 with a named suit other than its
\* printed suit is on top.
C30_Witness ==
    /\ lastOp.by = "player" /\ lastOp.op \in {"draw", "reshuffle"}
    /\ TopCard(gs.discardPile).rank = "8"
    /\ gs.currentSuit # TopCard(gs.discardPile).suit
====
